---- MODULE Spec2Model ----
(***************************************************************************)
(* A model of the SENPAI simulation kernel, src/sources/universe.c:        *)
(* construction of the universe (universe_init, universe_load,             *)
(* universe_populate, universe_setvelocity), the Monte-Carlo minimiser     *)
(* (universe_montecarlo), the driver loop (universe_simulate,              *)
(* universe_iterate, universe_printstate) and teardown (universe_clean).   *)
(*                                                                         *)
(* Lengths are integers counted in Angstrom-sized grid cells, times in     *)
(* timesteps.  Arrays keep the C convention: they are functions on         *)
(* 0..n-1 and the partner indices stored in bond tables are 0-based.       *)
(***************************************************************************)
EXTENDS Integers, Sequences, FiniteSets, TLC

VARIABLES
  args,        \* the configuration record (args_t)
  input,       \* the parsed content of the input file
  pc,          \* position of the driver
  universe,    \* the scalar fields of universe_t
  ref_atom,    \* universe->ref_atom
  atom,        \* universe->atom
  frame_nb,    \* universe_simulate's frame countdown
  frames,      \* what universe_printstate has written to the output file
  iter,        \* universe_iterate: the running pass, its index, what ran
  mc,          \* universe_montecarlo: its locals and what it has done
  released,    \* how many times each owned resource has been released
  clean_calls, \* how many calls of universe_clean have returned
  rng          \* the state of the C library's rand()

vars == <<args, input, pc, universe, ref_atom, atom, frame_nb, frames, iter,
          mc, released, clean_calls, rng>>

----------------------------------------------------------------------------
(* Bounds of the model *)

MaxRefAtoms == 2     \* reference atoms in an input file
MaxBonds == 2        \* bond records in an input file
MaxCopies == 2       \* args->copies
MaxFrameskip == 4    \* args->frameskip
MaxSteps == 21       \* args->max_time / args->timestep
MaxRunSteps == 2     \* run length where the force field is exercised
MaxGarbage == 1      \* largest value read from an uninitialised byte
JunkWord == 9        \* a non-zero value read from an uninitialised word
MaxProposals == 104  \* proposals universe_montecarlo is followed through
MaxSeed == 1         \* seeds of rand()
RandPeriod == 16     \* period of the model's rand()

----------------------------------------------------------------------------
(* vec3d_t *)

Axes == 1..3

Zero3 == <<0, 0, 0>>

vec3d_add(a, b) == [c \in Axes |-> a[c] + b[c]]

vec3d_mul(a, k) == [c \in Axes |-> a[c] * k]

RECURSIVE Sum(_, _)
Sum(f, S) == IF S = {} THEN 0
             ELSE LET x == CHOOSE y \in S : TRUE IN f[x] + Sum(f, S \ {x})

Range(n) == 0..(n - 1)

----------------------------------------------------------------------------
(* The C library's rand(): a linear congruential generator.  *)

rand(s) == (5 * s + 3) % RandPeriod

\* vec3d_marsaglia: a unit vector drawn with rand(); on the grid the unit
\* vectors are the six axis directions.
UnitVector(k) == [c \in Axes |->
                   IF c = (k \div 2) + 1 THEN (IF k % 2 = 0 THEN 1 ELSE -1)
                   ELSE 0]

vec3d_marsaglia(s) == [vec |-> UnitVector(rand(s) % 6), rng |-> rand(s)]

\* cos(rand()) * size, cos being sampled at the multiples of 1/2 in [-1, 1].
CosRandTimes(s, size) == (((rand(s) % 5) - 2) * size) \div 2

----------------------------------------------------------------------------
(* atom_t *)

\* atom_init: a zeroed atom without bonds.
atom_init == [pos |-> Zero3, vel |-> Zero3, acc |-> Zero3, frc |-> Zero3,
              element |-> 0, charge |-> 0, epsilon |-> 0, sigma |-> 0,
              bond_nb |-> 0, bond |-> <<>>, bond_strength |-> <<>>]

\* model_mass: the mass of an element, 0 for an unknown code.
model_mass(element) == IF element = 1 THEN 1
                       ELSE IF element = 6 THEN 12
                       ELSE IF element = 7 THEN 14
                       ELSE IF element = 8 THEN 16
                       ELSE 0

\* atom_enforce_pbc: each coordinate folded into [0, L).
atom_enforce_pbc(L, p) == [c \in Axes |-> p[c] % L]

InBox(L, p) == \A c \in Axes : 0 <= p[c] /\ p[c] < L

----------------------------------------------------------------------------
(* The input file and the configuration *)

\* An atom line: position in Angstroms, element, charge, epsilon, sigma.
AtomLine(i) == [pos |-> <<i, 0, 0>>, element |-> 1, charge |-> 0,
                epsilon |-> 1, sigma |-> 2]

\* The bond lines over R atoms: 1-based indices of two different atoms.
BondEnds(R) == {e \in (1..R) \X (1..R) : e[1] # e[2]}

\* An input file with R atoms and B bond records; record i has stiffness i+1.
Molecules(R, B) ==
  {[ref_atom_nb |-> R, ref_bond_nb |-> B,
    atoms |-> [i \in Range(R) |-> AtomLine(i)],
    bonds |-> [i \in Range(B) |->
                 [a1 |-> e[i][1], a2 |-> e[i][2], strength |-> i + 1]]] :
   e \in [Range(B) -> BondEnds(R)]}

AllMolecules ==
  UNION {Molecules(R, B) : R \in 1..MaxRefAtoms, B \in 0..MaxBonds}

MODE_ANALYTICAL == "analytical"
MODE_NUMERICAL == "numerical"

\* args_t; max_time is counted in timesteps.
Args(copies, temperature, frameskip, steps, numerical) ==
  [copies |-> copies, temperature |-> temperature, pressure |-> 1,
   timestep |-> 1, max_time |-> steps, frameskip |-> frameskip,
   numerical |-> numerical]

----------------------------------------------------------------------------
(* universe_load *)

Unset == -1

\* Lines 170-176: the number of bond records naming each atom.
BondCount(inp, i) ==
  Cardinality({b \in Range(inp.ref_bond_nb) : inp.bonds[b].a1 - 1 = i})
  + Cardinality({b \in Range(inp.ref_bond_nb) : inp.bonds[b].a2 - 1 = i})

\* Line 163 and 167: bond_index holds one byte per atom, of which memset
\* zeroes the first ref_bond_nb; the others keep what malloc returned.
BondIndexZeroed(inp, garbage) ==
  [i \in Range(inp.ref_atom_nb) |->
     IF i < inp.ref_bond_nb THEN 0 ELSE garbage[i]]

\* A store into slot k of a table of n slots; a store past the end lands
\* outside the table.
Store(table, n, k, v) == IF k < n THEN [table EXCEPT ![k] = v] ELSE table

\* Lines 191-204: record i is entered in the tables of both its atoms, at
\* the slot bond_index gives, and both counters advance.
RECURSIVE LoadBonds(_, _, _, _)
LoadBonds(inp, i, tables, bond_index) ==
  IF i >= inp.ref_bond_nb THEN tables
  ELSE
    LET first == inp.bonds[i].a1 - 1
        second == inp.bonds[i].a2 - 1
        k == inp.bonds[i].strength
        n1 == BondCount(inp, first)
        n2 == BondCount(inp, second)
        t1 == [tables EXCEPT
                 ![first].bond = Store(@, n1, bond_index[first], second),
                 ![first].bond_strength = Store(@, n1, bond_index[first], k)]
        t2 == [t1 EXCEPT
                 ![second].bond = Store(@, n2, bond_index[second], first),
                 ![second].bond_strength = Store(@, n2, bond_index[second], k)]
        b1 == [bond_index EXCEPT ![first] = (@ + 1) % 256]
        b2 == [b1 EXCEPT ![second] = (@ + 1) % 256]
    IN LoadBonds(inp, i + 1, t2, b2)

\* Lines 132-154 and 178-188: the reference atoms as read from the atom
\* block, positions scaled to the grid, with bond tables allocated and not
\* yet written.
LoadAtoms(inp) ==
  [i \in Range(inp.ref_atom_nb) |->
     [atom_init EXCEPT
        !.pos = vec3d_mul(inp.atoms[i].pos, 1),
        !.element = inp.atoms[i].element,
        !.charge = inp.atoms[i].charge,
        !.epsilon = inp.atoms[i].epsilon,
        !.sigma = inp.atoms[i].sigma,
        !.bond_nb = BondCount(inp, i),
        !.bond = [s \in Range(BondCount(inp, i)) |-> Unset],
        !.bond_strength = [s \in Range(BondCount(inp, i)) |-> Unset]]]

\* Lines 156-204: the tables after the bond block is read.
LoadTables(inp, garbage) ==
  LoadBonds(inp, 0, LoadAtoms(inp), BondIndexZeroed(inp, garbage))

\* The slots no store has reached.
UnsetSlots(tables) ==
  {x \in UNION {{i} \X Range(tables[i].bond_nb) : i \in DOMAIN tables} :
     tables[x[1]].bond[x[2]] = Unset}

\* The values an uninitialised 64-bit word is read as.
UninitWords == {0, JunkWord}

\* The values an uninitialised byte of bond_index is read as.
GarbageBytes == 0..MaxGarbage

\* universe_load: the reference atoms it leaves, given what the
\* uninitialised bytes of bond_index and the unwritten slots hold.
universe_load(inp, garbage, junk_bond, junk_strength) ==
  LET tables == LoadTables(inp, garbage)
  IN [i \in DOMAIN tables |->
        [tables[i] EXCEPT
           !.bond = [s \in DOMAIN @ |->
                       IF @[s] = Unset THEN junk_bond[<<i, s>>] ELSE @[s]],
           !.bond_strength = [s \in DOMAIN @ |->
                       IF @[s] = Unset THEN junk_strength[<<i, s>>] ELSE @[s]]]]

----------------------------------------------------------------------------
(* universe_populate and universe_setvelocity *)

\* Lines 237-270: the duplicate of reference atom ii in copy i.  Of vel, acc
\* and frc only x is assigned, last from the reference's z.
Duplicate(dup, reference, pos_offset, i, R) ==
  [dup EXCEPT
     !.element = reference.element,
     !.charge = reference.charge,
     !.epsilon = reference.epsilon,
     !.sigma = reference.sigma,
     !.bond_nb = reference.bond_nb,
     !.vel = [@ EXCEPT ![1] = reference.vel[3]],
     !.acc = [@ EXCEPT ![1] = reference.acc[3]],
     !.frc = [@ EXCEPT ![1] = reference.frc[3]],
     !.pos = vec3d_add(reference.pos, pos_offset),
     !.bond = [iii \in Range(reference.bond_nb) |->
                 reference.bond[iii] + (i * R)],
     !.bond_strength = [iii \in Range(reference.bond_nb) |->
                          reference.bond_strength[iii]]]

\* Lines 224-272: copy i and the ones after it, each placed at its own
\* random offset.
RECURSIVE universe_populate(_, _, _, _, _)
universe_populate(u, ref, atoms, i, s) ==
  IF i >= u.copy_nb THEN [atom |-> atoms, rng |-> s]
  ELSE
    LET m == vec3d_marsaglia(s)
        pos_offset == vec3d_mul(m.vec, CosRandTimes(m.rng, u.size))
        R == u.ref_atom_nb
        placed == [a \in DOMAIN atoms |->
                     IF a \in (i * R)..(i * R + R - 1)
                     THEN Duplicate(atoms[a], ref[a - (i * R)], pos_offset, i, R)
                     ELSE atoms[a]]
    IN universe_populate(u, ref, placed, i + 1, rand(m.rng))

Isqrt(n) == CHOOSE r \in 0..n : r * r <= n /\ n < (r + 1) * (r + 1)

Cbrt(n) == CHOOSE r \in 0..n : r * r * r <= n /\ n < (r + 1) * (r + 1) * (r + 1)

\* Line 72: the box side, the Boltzmann constant being 1 in grid units.
BoxSize(copy_nb, temperature, pressure) ==
  Cbrt((copy_nb * temperature) \div pressure)

\* Lines 286-291: the speed every atom starts with.
ThermalSpeed(u, ref) ==
  LET mass_mol == Sum([i \in DOMAIN ref |-> model_mass(ref[i].element)],
                      DOMAIN ref)
  IN Isqrt((3 * u.temperature) \div mass_mol)

\* Lines 294-299: atom i and the ones after it get the thermal speed in a
\* random direction.
RECURSIVE universe_setvelocity(_, _, _, _, _)
universe_setvelocity(u, velocity, atoms, i, s) ==
  IF i >= u.atom_nb THEN [atom |-> atoms, rng |-> s]
  ELSE
    LET m == vec3d_marsaglia(s)
    IN universe_setvelocity(u, velocity,
         [atoms EXCEPT ![i].vel = vec3d_mul(m.vec, velocity)], i + 1, m.rng)

----------------------------------------------------------------------------
(* The potential and force evaluators (potential.c, atom.c) *)

\* A displacement component wrapped into (-L/2, L/2].
MinImage(L, d) == LET m == d % L IN IF 2 * m > L THEN m - L ELSE m

Delta(L, p, q) == [c \in Axes |-> MinImage(L, q[c] - p[c])]

Dist2(v) == (v[1] * v[1]) + (v[2] * v[2]) + (v[3] * v[3])

IsBonded(atoms, i, j) ==
  \E s \in Range(atoms[i].bond_nb) : atoms[i].bond[s] = j

\* Harmonic term of bond slot s of atom i; the equilibrium length is the
\* distance of the two atoms in the reference molecule.
potential_bond(u, ref, atoms, i, s) ==
  LET j == atoms[i].bond[s]
      R == u.ref_atom_nb
      d2 == Dist2(Delta(u.size, atoms[i].pos, atoms[j].pos))
      d == Isqrt(d2)
      d0 == Isqrt(Dist2([c \in Axes |-> ref[j % R].pos[c] - ref[i % R].pos[c]]))
  IN IF d2 = 0 THEN 0
     ELSE (atoms[i].bond_strength[s] * (d - d0) * (d - d0)) \div 2

\* Coulomb term of the pair (i, j).
potential_elec(u, atoms, i, j) ==
  LET d2 == Dist2(Delta(u.size, atoms[i].pos, atoms[j].pos))
  IN IF d2 = 0 THEN 0
     ELSE (9 * atoms[i].charge * atoms[j].charge) \div Isqrt(d2)

\* Lennard-Jones term of the pair (i, j).
potential_lj(u, atoms, i, j) ==
  LET d2 == Dist2(Delta(u.size, atoms[i].pos, atoms[j].pos))
      eps == Isqrt(atoms[i].epsilon * atoms[j].epsilon)
      sig == (atoms[i].sigma + atoms[j].sigma) \div 2
  IN IF d2 = 0 THEN 0
     ELSE 4 * eps * (((sig ^ 12) \div (d2 ^ 6)) - ((sig ^ 6) \div (d2 ^ 3)))

NonBonded(u, atoms, i) ==
  {j \in Range(u.atom_nb) : j # i /\ ~IsBonded(atoms, i, j)}

\* potential_total: the potential of atom i.
potential_total(u, ref, atoms, i) ==
  Sum([s \in Range(atoms[i].bond_nb) |-> potential_bond(u, ref, atoms, i, s)],
      Range(atoms[i].bond_nb))
  + Sum([j \in NonBonded(u, atoms, i) |->
           potential_elec(u, atoms, i, j) + potential_lj(u, atoms, i, j)],
        NonBonded(u, atoms, i))

\* universe_energy_potential, lines 442-456: the sum over the live atoms.
universe_energy_potential(u, ref, atoms) ==
  Sum([i \in Range(u.atom_nb) |-> potential_total(u, ref, atoms, i)],
      Range(u.atom_nb))

Shifted(atoms, i, c, h) == [atoms EXCEPT ![i].pos[c] = @ + h]

\* atom_update_frc_numerical: central differences of the atom's potential,
\* one axis after the other, the position being restored after each.
frc_numerical(u, ref, atoms, i) ==
  [c \in Axes |->
     (0 - (potential_total(u, ref, Shifted(atoms, i, c, 1), i)
           - potential_total(u, ref, Shifted(atoms, i, c, -1), i))) \div 2]

\* The closed-form force of bond slot s on atom i.
force_bond(u, ref, atoms, i, s) ==
  LET j == atoms[i].bond[s]
      R == u.ref_atom_nb
      dr == Delta(u.size, atoms[i].pos, atoms[j].pos)
      d == Isqrt(Dist2(dr))
      d0 == Isqrt(Dist2([c \in Axes |-> ref[j % R].pos[c] - ref[i % R].pos[c]]))
  IN [c \in Axes |->
        IF d = 0 THEN 0
        ELSE (atoms[i].bond_strength[s] * (d - d0) * dr[c]) \div d]

\* The closed-form Coulomb and Lennard-Jones force of atom j on atom i.
force_pair(u, atoms, i, j) ==
  LET dr == Delta(u.size, atoms[i].pos, atoms[j].pos)
      d2 == Dist2(dr)
      d == Isqrt(d2)
      eps == Isqrt(atoms[i].epsilon * atoms[j].epsilon)
      sig == (atoms[i].sigma + atoms[j].sigma) \div 2
  IN [c \in Axes |->
        IF d2 = 0 THEN 0
        ELSE (0 - ((9 * atoms[i].charge * atoms[j].charge * dr[c])
                   \div (d * d * d)))
             + (24 * eps * (((2 * (sig ^ 12)) \div (d2 ^ 7))
                            - ((sig ^ 6) \div (d2 ^ 4))) * dr[c])]

\* atom_update_frc_analytical: the sum of the closed-form terms.
frc_analytical(u, ref, atoms, i) ==
  [c \in Axes |->
     Sum([s \in Range(atoms[i].bond_nb) |-> force_bond(u, ref, atoms, i, s)[c]],
         Range(atoms[i].bond_nb))
     + Sum([j \in NonBonded(u, atoms, i) |-> force_pair(u, atoms, i, j)[c]],
           NonBonded(u, atoms, i))]

\* atom_update_pos: r <- r + v dt + a dt^2 / 2.
atom_update_pos(a, dt) ==
  [a EXCEPT !.pos = [c \in Axes |->
                       a.pos[c] + (a.vel[c] * dt) + ((a.acc[c] * dt * dt) \div 2)]]

\* atom_update_acc: the mean of the old acceleration and F / m.
atom_update_acc(a) ==
  [a EXCEPT !.acc = [c \in Axes |->
                       (a.acc[c] + (a.frc[c] \div model_mass(a.element))) \div 2]]

\* atom_update_vel: v <- v + a dt.
atom_update_vel(a, dt) ==
  [a EXCEPT !.vel = [c \in Axes |-> a.vel[c] + (a.acc[c] * dt)]]

----------------------------------------------------------------------------
(* Initial states *)

Resources == {"ref_atom", "atom", "ref_bond", "atom_bond", "meta_name",
              "meta_author", "meta_comment", "input_file", "output_file"}

IterIdle == [pass |-> "none", i |-> 0, ran |-> <<>>, pos_at_frc |-> <<>>]

McIdle == [part_id |-> 0, tries |-> 0, mag_exp |-> 0, potential |-> 0,
           n |-> 0, potential_at_call |-> 0, potential_new |-> 0,
           lowered |-> {},
           last |-> "none", before |-> <<>>]

Seeds == 0..MaxSeed

InitWith(scenarios) ==
  /\ \E sc \in scenarios :
        /\ args = sc.args
        /\ input = sc.input
        /\ rng = sc.seed
  /\ pc = "start"
  /\ universe = [ref_atom_nb |-> 0, ref_bond_nb |-> 0, copy_nb |-> 0,
                  atom_nb |-> 0, size |-> 0, time |-> 0, temperature |-> 0,
                  pressure |-> 0, iterations |-> 0, load_defined |-> TRUE]
  /\ ref_atom = <<>>
  /\ atom = <<>>
  /\ frame_nb = 0
  /\ frames = <<>>
  /\ iter = IterIdle
  /\ mc = McIdle
  /\ released = [r \in Resources |-> 0]
  /\ clean_calls = 0

Temperatures == {8, 40}

\* Every input file within the bounds, run for one step.
Scenarios ==
  {[args |-> Args(k, t, 0, 1, m), input |-> mol, seed |-> sd] :
     k \in 1..MaxCopies, t \in Temperatures,
     m \in {MODE_ANALYTICAL, MODE_NUMERICAL}, mol \in AllMolecules,
     sd \in Seeds}

Init == InitWith(Scenarios)

\* One atom; two atoms without a bond; two atoms joined by two bond records.
RunMolecules ==
  Molecules(1, 0) \cup Molecules(2, 0)
  \cup {mol \in Molecules(2, 2) : mol.bonds[0].a1 = 1 /\ mol.bonds[1].a1 = 2}

\* The molecules above in every box, with both force evaluators, run for a
\* few steps.
RunScenarios ==
  {[args |-> Args(k, t, f, n, m), input |-> mol, seed |-> sd] :
     k \in 1..MaxCopies, t \in Temperatures, f \in 0..1,
     n \in 0..MaxRunSteps, m \in {MODE_ANALYTICAL, MODE_NUMERICAL},
     mol \in RunMolecules, sd \in Seeds}

InitRun == InitWith(RunScenarios)

\* One or two single atoms, every frameskip and every run length within the
\* bounds.
FrameScenarios ==
  {[args |-> Args(k, 8, f, n, MODE_ANALYTICAL), input |-> mol, seed |-> sd] :
     k \in 1..2, f \in 0..MaxFrameskip, n \in 0..MaxSteps,
     mol \in Molecules(1, 0), sd \in Seeds}

InitFrames == InitWith(FrameScenarios)

----------------------------------------------------------------------------
(* universe_init *)

\* Lines 28-61: the fields are initialised and both files opened; either
\* fopen may fail.
InitOpen ==
  /\ pc = "start"
  /\ \E opened \in BOOLEAN :
        pc' = IF opened THEN "load" ELSE "init_failed"
  /\ universe' = [universe EXCEPT !.copy_nb = args.copies,
                                  !.temperature = args.temperature,
                                  !.pressure = args.pressure]
  /\ UNCHANGED <<args, input, ref_atom, atom, frame_nb, frames, iter, mc,
                 released, clean_calls, rng>>

\* Lines 64 and 98-213: universe_load.
Load ==
  /\ pc = "load"
  /\ \E garbage \in [Range(input.ref_atom_nb) -> GarbageBytes] :
        LET tables == LoadTables(input, garbage)
            slots == UnsetSlots(tables)
        IN \E junk_bond \in [slots -> UninitWords],
              junk_strength \in [slots -> UninitWords] :
             /\ ref_atom' = universe_load(input, garbage, junk_bond,
                                          junk_strength)
             /\ universe' = [universe EXCEPT
                               !.ref_atom_nb = input.ref_atom_nb,
                               !.ref_bond_nb = input.ref_bond_nb,
                               !.load_defined = (slots = {})]
  /\ pc' = "alloc"
  /\ UNCHANGED <<args, input, atom, frame_nb, frames, iter, mc, released,
                 clean_calls, rng>>

\* Lines 71-80: the live atoms are counted, the box sized and the atoms
\* allocated and initialised.
InitAlloc ==
  /\ pc = "alloc"
  /\ universe' = [universe EXCEPT
                    !.atom_nb = universe.ref_atom_nb * universe.copy_nb,
                    !.size = BoxSize(universe.copy_nb, universe.temperature,
                                     args.pressure)]
  /\ atom' = [i \in Range(universe.ref_atom_nb * universe.copy_nb) |->
                atom_init]
  /\ pc' = "populate"
  /\ UNCHANGED <<args, input, ref_atom, frame_nb, frames, iter, mc, released,
                 clean_calls, rng>>

\* Lines 83 and 215-275: universe_populate.
Populate ==
  /\ pc = "populate"
  /\ LET r == universe_populate(universe, ref_atom, atom, 0, rng)
     IN atom' = r.atom /\ rng' = r.rng
  /\ pc' = "pbc"
  /\ UNCHANGED <<args, input, universe, ref_atom, frame_nb, frames, iter, mc,
                 released, clean_calls>>

\* Lines 87-89: every atom is folded into the box.
InitEnforcePbc(atoms, L) ==
  [i \in DOMAIN atoms |->
     [atoms[i] EXCEPT !.pos = atom_enforce_pbc(L, @)]]

InitPbc ==
  /\ pc = "pbc"
  /\ atom' = InitEnforcePbc(atom, universe.size)
  /\ pc' = "setvelocity"
  /\ UNCHANGED <<args, input, universe, ref_atom, frame_nb, frames, iter, mc,
                 released, clean_calls, rng>>

\* Lines 92-95 and 278-302: universe_setvelocity, and universe_init returns.
SetVelocity ==
  /\ pc = "setvelocity"
  /\ LET r == universe_setvelocity(universe, ThermalSpeed(universe, ref_atom),
                                   atom, 0, rng)
     IN atom' = r.atom /\ rng' = r.rng
  /\ pc' = "ready"
  /\ UNCHANGED <<args, input, universe, ref_atom, frame_nb, frames, iter, mc,
                 released, clean_calls>>

----------------------------------------------------------------------------
(* universe_montecarlo *)

Positions(atoms) == [i \in DOMAIN atoms |-> atoms[i].pos]

\* Line 491 and 505: the offset magnitude after mag_exp refinements, 1E-9 m
\* being 10 cells.
Mag(mag_exp) == 10 \div (10 ^ mag_exp)

\* TriesStep refining one try early.
TriesStepEarly(tries, mag_exp) ==
  IF tries < 49 THEN [tries |-> tries + 1, mag_exp |-> mag_exp]
  ELSE [tries |-> 0, mag_exp |-> mag_exp + 1]

\* Lines 500-506: the try counter and the refinement of the magnitude.
TriesStep(tries, mag_exp) ==
  IF tries < 50 THEN [tries |-> tries + 1, mag_exp |-> mag_exp]
  ELSE [tries |-> 0, mag_exp |-> mag_exp + 1]

\* MonteCarloMove without the call of atom_enforce_pbc.
MonteCarloMoveUnwrapped(atoms, L, part_id, vec, mag) ==
  [atoms EXCEPT ![part_id].pos = vec3d_add(@, vec3d_mul(vec, mag))]

\* Lines 512-518: the atom is displaced and folded into the box.
MonteCarloMove(atoms, L, part_id, vec, mag) ==
  [atoms EXCEPT
     ![part_id].pos = atom_enforce_pbc(L, vec3d_add(@, vec3d_mul(vec, mag)))]

\* Accepts keeping a move that leaves the potential as it was.
AcceptsNotHigher(potential_new, potential) == potential_new <= potential

\* Line 525: the move is kept when it lowers the potential.
Accepts(potential_new, potential) == potential_new < potential

\* Discard without the restoring assignment.
DiscardNothing(moved, part_id, pos_backup) == moved

\* Line 529: a discarded move puts the backup back.
Discard(moved, part_id, pos_backup) ==
  [moved EXCEPT ![part_id].pos = pos_backup]

\* The driver calls universe_montecarlo on the constructed universe.
McBegin ==
  /\ pc = "ready"
  /\ universe.load_defined
  /\ mc' = [McIdle EXCEPT
              !.potential_at_call =
                 universe_energy_potential(universe, ref_atom, atom)]
  /\ pc' = "mc_atom"
  /\ UNCHANGED <<args, input, universe, ref_atom, atom, frame_nb, frames, iter,
                 released, clean_calls, rng>>

\* Lines 489-497: the sweep reaches atom part_id.
McAtom ==
  /\ pc = "mc_atom"
  /\ mc.part_id < universe.atom_nb
  /\ mc' = [mc EXCEPT
              !.mag_exp = 0,
              !.potential = universe_energy_potential(universe, ref_atom, atom),
              !.tries = 0,
              !.n = 0,
              !.last = "none"]
  /\ pc' = "mc_try"
  /\ UNCHANGED <<args, input, universe, ref_atom, atom, frame_nb, frames, iter,
                 released, clean_calls, rng>>

\* Lines 498-530: one proposal for atom part_id.
McPropose ==
  /\ pc = "mc_try"
  /\ mc.n < MaxProposals
  /\ LET ts == TriesStep(mc.tries, mc.mag_exp)
         pos_backup == atom[mc.part_id].pos
         m == vec3d_marsaglia(rng)
         moved == MonteCarloMove(atom, universe.size, mc.part_id, m.vec,
                                 Mag(ts.mag_exp))
         potential_new == universe_energy_potential(universe, ref_atom, moved)
         tried == [mc EXCEPT !.tries = ts.tries, !.mag_exp = ts.mag_exp,
                             !.n = @ + 1, !.before = Positions(atom),
                             !.potential_new = potential_new,
                             !.lowered = IF potential_new < mc.potential
                                         THEN @ \cup {mc.part_id} ELSE @]
     IN /\ rng' = m.rng
        /\ IF Accepts(potential_new, mc.potential)
           THEN /\ atom' = moved
                /\ mc' = [tried EXCEPT !.part_id = @ + 1, !.last = "accepted"]
                /\ pc' = "mc_atom"
           ELSE /\ atom' = Discard(moved, mc.part_id, pos_backup)
                /\ mc' = [tried EXCEPT !.last = "rejected"]
                /\ pc' = "mc_try"
  /\ UNCHANGED <<args, input, universe, ref_atom, frame_nb, frames, iter,
                 released, clean_calls>>

\* Lines 489 and 533: the sweep is over and universe_montecarlo returns.
McReturn ==
  /\ pc = "mc_atom"
  /\ mc.part_id >= universe.atom_nb
  /\ pc' = "minimised"
  /\ UNCHANGED <<args, input, universe, ref_atom, atom, frame_nb, frames, iter,
                 mc, released, clean_calls, rng>>

----------------------------------------------------------------------------
(* universe_simulate, universe_printstate and universe_iterate *)

\* Lines 407-423: the frame universe_printstate writes, positions in
\* Angstroms.
universe_printstate(u, atoms) ==
  [atom_nb |-> u.atom_nb, iterations |-> u.iterations,
   pos |-> [i \in Range(u.atom_nb) |-> vec3d_mul(atoms[i].pos, 1)]]

\* FrameDue comparing the unsigned countdown with >=.
FrameDueUnsigned(countdown) == countdown >= 0

\* Line 341: a frame is due when the countdown is zero.
FrameDue(countdown) == countdown = 0

\* FrameCountdown resetting the countdown one too high.
FrameCountdownLong(countdown, frameskip) ==
  IF countdown = 0 THEN frameskip + 1 ELSE countdown - 1

\* Lines 345 and 348: the countdown after this pass of the loop.
FrameCountdown(countdown, frameskip) ==
  IF FrameDue(countdown) THEN frameskip ELSE countdown - 1

NextPass(pass) == CASE pass = "pos" -> "pbc"
                    [] pass = "pbc" -> "frc"
                    [] pass = "frc" -> "acc"
                    [] pass = "acc" -> "vel"
                    [] pass = "vel" -> "end"

\* NextCall with the five updates made atom by atom in one loop.
NextCallPerAtom(pass, i, n) ==
  IF pass # "vel" THEN [pass |-> NextPass(pass), i |-> i]
  ELSE IF i + 1 < n THEN [pass |-> "pos", i |-> i + 1]
  ELSE [pass |-> "end", i |-> 0]

\* Lines 367-401: the call that follows call i of a pass over n atoms; each
\* pass runs over the whole array before the next one starts.
NextCall(pass, i, n) ==
  IF i + 1 < n THEN [pass |-> pass, i |-> i + 1]
  ELSE [pass |-> NextPass(pass), i |-> 0]

Called(it, n) ==
  LET nc == NextCall(it.pass, it.i, n)
  IN [it EXCEPT !.pass = nc.pass, !.i = nc.i,
                !.ran = Append(@, [pass |-> it.pass, i |-> it.i])]

\* Line 337: the driver calls universe_simulate.
SimBegin ==
  /\ pc \in {"ready", "minimised"}
  /\ universe.load_defined
  /\ frame_nb' = 0
  /\ pc' = "sim"
  /\ UNCHANGED <<args, input, universe, ref_atom, atom, frames, iter, mc,
                 released, clean_calls, rng>>

\* Lines 338-348: the target time is not reached; a frame is written when
\* it is due, and universe_iterate is entered.
SimFrame ==
  /\ pc = "sim"
  /\ universe.time < args.max_time
  /\ frames' = IF FrameDue(frame_nb)
               THEN Append(frames, universe_printstate(universe, atom))
               ELSE frames
  /\ frame_nb' = FrameCountdown(frame_nb, args.frameskip)
  /\ iter' = [pass |-> IF universe.atom_nb > 0 THEN "pos" ELSE "end",
              i |-> 0, ran |-> <<>>, pos_at_frc |-> <<>>]
  /\ pc' = "iterate"
  /\ UNCHANGED <<args, input, universe, ref_atom, atom, mc, released,
                 clean_calls, rng>>

\* Lines 367-369: atom_update_pos on atom iter.i.
UpdatePos ==
  /\ pc = "iterate" /\ iter.pass = "pos"
  /\ atom' = [atom EXCEPT ![iter.i] = atom_update_pos(@, args.timestep)]
  /\ iter' = Called(iter, universe.atom_nb)
  /\ UNCHANGED <<args, input, pc, universe, ref_atom, frame_nb, frames, mc,
                 released, clean_calls, rng>>

\* Lines 372-374: atom_enforce_pbc on atom iter.i.
EnforcePbc ==
  /\ pc = "iterate" /\ iter.pass = "pbc"
  /\ atom' = [atom EXCEPT ![iter.i].pos = atom_enforce_pbc(universe.size, @)]
  /\ iter' = Called(iter, universe.atom_nb)
  /\ UNCHANGED <<args, input, pc, universe, ref_atom, frame_nb, frames, mc,
                 released, clean_calls, rng>>

\* Lines 378-391: the force on atom iter.i, by the configured evaluator.
UpdateFrc ==
  /\ pc = "iterate" /\ iter.pass = "frc"
  /\ atom' = [atom EXCEPT ![iter.i].frc =
                IF args.numerical = MODE_NUMERICAL
                THEN frc_numerical(universe, ref_atom, atom, iter.i)
                ELSE frc_analytical(universe, ref_atom, atom, iter.i)]
  /\ iter' = [Called(iter, universe.atom_nb) EXCEPT
                !.pos_at_frc = IF iter.pos_at_frc = <<>> THEN Positions(atom)
                               ELSE @]
  /\ UNCHANGED <<args, input, pc, universe, ref_atom, frame_nb, frames, mc,
                 released, clean_calls, rng>>

\* Lines 394-396: atom_update_acc on atom iter.i.
UpdateAcc ==
  /\ pc = "iterate" /\ iter.pass = "acc"
  /\ atom' = [atom EXCEPT ![iter.i] = atom_update_acc(@)]
  /\ iter' = Called(iter, universe.atom_nb)
  /\ UNCHANGED <<args, input, pc, universe, ref_atom, frame_nb, frames, mc,
                 released, clean_calls, rng>>

\* Lines 399-401: atom_update_vel on atom iter.i.
UpdateVel ==
  /\ pc = "iterate" /\ iter.pass = "vel"
  /\ atom' = [atom EXCEPT ![iter.i] = atom_update_vel(@, args.timestep)]
  /\ iter' = Called(iter, universe.atom_nb)
  /\ UNCHANGED <<args, input, pc, universe, ref_atom, frame_nb, frames, mc,
                 released, clean_calls, rng>>

\* Lines 403 and 354-355: universe_iterate returns; the clock and the
\* iteration counter advance.
SimAdvance ==
  /\ pc = "iterate" /\ iter.pass = "end"
  /\ universe' = [universe EXCEPT !.time = @ + args.timestep,
                                  !.iterations = @ + 1]
  /\ pc' = "sim"
  /\ UNCHANGED <<args, input, ref_atom, atom, frame_nb, frames, iter, mc,
                 released, clean_calls, rng>>

\* Lines 338 and 357-359: the target time is reached and universe_simulate
\* returns.
SimEnd ==
  /\ pc = "sim"
  /\ universe.time >= args.max_time
  /\ pc' = "done"
  /\ UNCHANGED <<args, input, universe, ref_atom, atom, frame_nb, frames, iter,
                 mc, released, clean_calls, rng>>

----------------------------------------------------------------------------
(* universe_clean *)

\* Lines 317-325: the handles and blocks universe_clean releases itself,
\* none of which it sets to NULL afterwards.
ReleasedDirectly == {"output_file", "input_file", "meta_name", "meta_author",
                     "meta_comment", "ref_atom", "atom"}

\* Lines 309-314: the bond sequences, released by atom_clean, which sets
\* them to NULL inside the atom.
ReleasedByAtomClean == {"ref_bond", "atom_bond"}

\* universe_clean.  A call after the first reads the atoms through the
\* released arrays, where atom_clean finds either the NULLs it left or stale
\* pointers, and releases every handle and block of lines 317-325 again; the
\* C library may abort the process at a repeated release.
Clean ==
  /\ pc \in {"done", "cleaned"}
  /\ clean_calls < 2
  /\ \E stale \in SUBSET ReleasedByAtomClean, returns \in BOOLEAN :
        /\ clean_calls = 0 => (stale = ReleasedByAtomClean /\ returns)
        /\ released' = [r \in Resources |->
                          IF r \in ReleasedDirectly \cup stale
                          THEN released[r] + 1 ELSE released[r]]
        /\ pc' = IF returns THEN "cleaned" ELSE "aborted"
        /\ clean_calls' = IF returns THEN clean_calls + 1 ELSE clean_calls
  /\ UNCHANGED <<args, input, universe, ref_atom, atom, frame_nb, frames, iter,
                 mc, rng>>

Next ==
  \/ InitOpen \/ Load \/ InitAlloc \/ Populate \/ InitPbc \/ SetVelocity
  \/ McBegin \/ McAtom \/ McPropose \/ McReturn
  \/ SimBegin \/ SimFrame \/ UpdatePos \/ EnforcePbc \/ UpdateFrc
  \/ UpdateAcc \/ UpdateVel \/ SimAdvance \/ SimEnd
  \/ Clean

Spec == Init /\ [][Next]_vars

SpecRun == InitRun /\ [][Next]_vars

SpecFrames == InitFrames /\ [][Next]_vars

----------------------------------------------------------------------------
(* The claims *)

FrameIndices == [x \in 1..Len(frames) |-> frames[x].iterations]

TwentyStepsSkipFour ==
  pc = "done" /\ args.frameskip = 4 /\ args.max_time = 20
  /\ universe.iterations = 20

\* C1, as stated: with frameskip = 4 and a run of 20 integration steps,
\* universe_simulate writes 5 frames, with iteration indices 0, 5, 10, 15
\* and 20.
C1_FiveFrames ==
  TwentyStepsSkipFour => FrameIndices = <<0, 5, 10, 15, 20>>

\* C1, amended: with frameskip = 4 and a run of 20 integration steps,
\* universe_simulate writes 4 frames, with iteration indices 0, 5, 10 and 15;
\* no frame follows the last step.
C1_FourFrames ==
  TwentyStepsSkipFour => FrameIndices = <<0, 5, 10, 15>>

C1_Witness == TwentyStepsSkipFour /\ Len(frames) = 4

\* The integration steps universe_simulate has reached the frame decision of.
StepsDecided ==
  IF pc = "iterate" THEN universe.iterations + 1 ELSE universe.iterations

\* C7: a frame is written before integration step n exactly when n is a
\* multiple of frameskip + 1, and its header holds n; so the frames written
\* once the decision for steps 0..m-1 is made are those of the multiples of
\* frameskip + 1 below m, in order.
C7_FrameStride ==
  /\ Len(frames)
       = Cardinality({n \in Range(StepsDecided) : n % (args.frameskip + 1) = 0})
  /\ \A x \in 1..Len(frames) :
       /\ frames[x].iterations = (x - 1) * (args.frameskip + 1)
       /\ frames[x].iterations < StepsDecided

C7_Witness ==
  /\ pc = "done" /\ args.frameskip = 2 /\ universe.iterations = 7
  /\ Len(frames) = 3

AllInBox(positions) ==
  \A i \in DOMAIN positions : InBox(universe.size, positions[i])

\* C2: every live atom lies in [0, L)^3 when universe_init has returned,
\* in every frame universe_printstate writes, after every universe_iterate
\* step and after every proposal round of universe_montecarlo.
C2_PositionsInBox ==
  /\ pc \in {"ready", "mc_atom", "mc_try", "minimised", "sim", "done"}
       => AllInBox(Positions(atom))
  /\ (pc = "iterate" /\ iter.pass = "end") => AllInBox(Positions(atom))
  /\ \A x \in 1..Len(frames) : AllInBox(frames[x].pos)

C2_Witness ==
  /\ pc = "done" /\ universe.iterations >= 2 /\ Len(frames) >= 2
  /\ mc.last = "accepted" /\ mc.n > 1
  /\ Positions(atom) # mc.before

\* The entries (partner, stiffness) the bond records of the input give atom i.
RecordedEntries(i, j, k) ==
  Cardinality({b \in Range(input.ref_bond_nb) :
                 /\ input.bonds[b].strength = k
                 /\ \/ input.bonds[b].a1 - 1 = i /\ input.bonds[b].a2 - 1 = j
                    \/ input.bonds[b].a2 - 1 = i /\ input.bonds[b].a1 - 1 = j})

StoredEntries(a, j, k) ==
  Cardinality({s \in Range(a.bond_nb) :
                 a.bond[s] = j /\ a.bond_strength[s] = k})

Loaded == pc \notin {"start", "load", "init_failed"}

\* C3: after universe_load, for every R and B and every bond record
\* (a, b, k), reference atom a-1 holds partner b-1 with stiffness k and atom
\* b-1 holds partner a-1 with stiffness k, each bond list holding exactly one
\* entry per bond record that names its atom.
C3_BondSymmetry ==
  Loaded =>
    \A i \in Range(input.ref_atom_nb) :
      /\ ref_atom[i].bond_nb
           = Cardinality({b \in Range(input.ref_bond_nb) :
                            i \in {input.bonds[b].a1 - 1, input.bonds[b].a2 - 1}})
      /\ \A b \in Range(input.ref_bond_nb) : \A j \in Range(input.ref_atom_nb) :
           StoredEntries(ref_atom[i], j, input.bonds[b].strength)
             = RecordedEntries(i, j, input.bonds[b].strength)

Populated ==
  pc \notin {"start", "load", "alloc", "populate", "init_failed"}

\* C4: after universe_populate, for every copy c and every reference edge
\* (a, b) with stiffness k, live atom c*R+a has partner c*R+b with stiffness
\* k, and every partner index stored in a live atom of block c lies in
\* [c*R, (c+1)*R).
C4_CopyIsomorphism ==
  Populated =>
    LET R == universe.ref_atom_nb
    IN \A c \in Range(universe.copy_nb) : \A a \in Range(R) :
         /\ \A s \in Range(ref_atom[a].bond_nb) :
              StoredEntries(atom[c * R + a], c * R + ref_atom[a].bond[s],
                            ref_atom[a].bond_strength[s]) >= 1
         /\ \A s \in Range(atom[c * R + a].bond_nb) :
              /\ c * R <= atom[c * R + a].bond[s]
              /\ atom[c * R + a].bond[s] < (c + 1) * R

\* C5: when universe_montecarlo returns, the total potential is at most the
\* total potential at the call, and a rejected proposal leaves every
\* position as it was before the proposal.
C5_McMonotone ==
  /\ pc = "minimised"
       => universe_energy_potential(universe, ref_atom, atom)
            <= mc.potential_at_call
  /\ (pc = "mc_try" /\ mc.last = "rejected") => Positions(atom) = mc.before

C5_Witness ==
  /\ pc = "minimised" /\ universe.atom_nb >= 2 /\ mc.n > 1
  /\ universe_energy_potential(universe, ref_atom, atom) < mc.potential_at_call

\* C6: two calls of universe_clean in a row release each owned resource
\* exactly once, the second call releasing nothing.
C6_CleanIdempotent ==
  clean_calls = 2 => \A r \in Resources : released[r] = 1

\* C8, as stated: proposal n (n >= 1) for an atom uses the magnitude
\* 1e-9 * 0.1^floor((n-1)/50).
C8_RefineEvery50 ==
  (pc \in {"mc_try", "mc_atom"} /\ mc.n >= 1)
    => mc.mag_exp = (mc.n - 1) \div 50

\* C8, amended: proposal n (n >= 1) for an atom uses the magnitude
\* 1e-9 * 0.1^floor(n/51): the magnitude is multiplied by 0.1 at every 51st
\* proposal, and it is 1e-9 again when the sweep reaches the next atom.
C8_RefineEvery51 ==
  /\ (pc \in {"mc_try", "mc_atom"} /\ mc.n >= 1)
       => mc.mag_exp = mc.n \div 51
  /\ (pc = "mc_try" /\ mc.n = 0) => (mc.mag_exp = 0 /\ mc.tries = 0)

C8_Witness == pc = "mc_try" /\ mc.n = 102 /\ mc.mag_exp = 2

PassRank(pass) == CASE pass = "pos" -> 1
                    [] pass = "pbc" -> 2
                    [] pass = "frc" -> 3
                    [] pass = "acc" -> 4
                    [] pass = "vel" -> 5

Passes == {"pos", "pbc", "frc", "acc", "vel"}

\* C9: within a universe_iterate step every atom has had an update before
\* any atom gets the next one, in the order position, PBC wrap, force,
\* acceleration, velocity, and no position changes from the first force
\* computation to the end of the step.
C9_WholeArrayPasses ==
  pc = "iterate" =>
    /\ \A y \in 1..Len(iter.ran) : \A p \in Passes :
         PassRank(p) < PassRank(iter.ran[y].pass) =>
           \A i \in Range(universe.atom_nb) :
             \E x \in 1..(y - 1) : iter.ran[x] = [pass |-> p, i |-> i]
    /\ iter.pos_at_frc # <<>> => Positions(atom) = iter.pos_at_frc
    /\ iter.pass = "end" => Len(iter.ran) = 5 * universe.atom_nb

C9_Witness ==
  /\ pc = "iterate" /\ iter.pass = "end" /\ universe.atom_nb >= 2
  /\ args.numerical = MODE_NUMERICAL
  /\ \E i \in Range(universe.atom_nb) : atom[i].frc # Zero3

\* C10: universe_montecarlo sweeps the atoms once in index order, leaves an
\* atom at its first strictly potential-lowering proposal and at no other,
\* retries without a cap, and returns only when every atom in turn has had
\* such a proposal.
C10_SingleSweep ==
  [][/\ mc'.part_id \in {mc.part_id, mc.part_id + 1}
     /\ mc'.part_id = mc.part_id + 1
          => (pc = "mc_try" /\ mc'.potential_new < mc.potential)
     /\ (pc = "mc_try" /\ mc'.n = mc.n + 1)
          => IF mc'.potential_new < mc.potential
             THEN mc'.part_id = mc.part_id + 1 /\ pc' = "mc_atom"
             ELSE mc'.part_id = mc.part_id /\ pc' = "mc_try"
     /\ pc' = "minimised"
          => (mc'.part_id = universe.atom_nb
              /\ mc'.lowered = Range(universe.atom_nb))]_vars

C10_Witness ==
  /\ pc = "minimised" /\ universe.atom_nb >= 2
  /\ mc.lowered = Range(universe.atom_nb) /\ mc.n > 51

====
